---- MODULE Spec2Model ----
(***************************************************************************)
(* Model of tests/regression/validate_npd.py: the NPD regression           *)
(* validation harness (ground-truth inference, compilation, analysis,      *)
(* outcome classification, metrics, report, exit code).                    *)
(*                                                                         *)
(* Python strings whose characters matter (file names, file contents,      *)
(* analyzer output) are sequences of one-character strings.  Error         *)
(* messages only matter through their emptiness and their fixed prefix,    *)
(* so they are TLA+ strings in which the interpolated text is elided.      *)
(***************************************************************************)
EXTENDS Integers, Sequences, FiniteSets, TLC

VARIABLES
    pc,            \* position of the control flow
    dir_exists,    \* benchmark_dir.exists()
    gvfa_exists,   \* lotus_gvfa_path.exists()
    files,         \* the *.c entries of the benchmark directory: [name, text]
    c_files,       \* validate_all: sorted(glob("*.c"))
    idx,           \* validate_all: index of the file being validated
    expected_bug,  \* validate_single_file: local expected_bug
    ret_line,      \* check_expected_behavior: line of the return statement taken
    run,           \* the external processes started for the current file
    results,       \* the list of TestResult built so far
    calls,         \* log of stage invocations: <<index, stage>>
    divs,          \* log of evaluated divisions: [expr, den]
    summary,       \* what print_summary printed
    json,          \* what save_results_json wrote
    console,       \* run-level messages printed by main / validate_all
    exit_code      \* return value of main (-1 while running)

vars == <<pc, dir_exists, gvfa_exists, files, c_files, idx, expected_bug,
          ret_line, run, results, calls, divs, summary, json, console,
          exit_code>>

(***************************************************************************)
(* Bounds of the model.                                                    *)
(***************************************************************************)
MaxFiles == 2      \* programs in the benchmark directory
MaxLines == 1      \* lines the analyzer writes to stdout
MaxFrags == 2      \* fragments a generated file name / content is made of

(***************************************************************************)
(* Characters and strings.                                                 *)
(***************************************************************************)
\* The characters used, in code-point order (str comparison, str.lower).
Chars ==
    << "\t", "\n", " ", "+", "-", ".",
       "0", "1", "2", "3", "4", "5", "6", "7", "8", "9", ":",
       "A", "B", "C", "D", "E", "F", "G", "H", "I", "J", "K", "L", "M",
       "N", "O", "P", "Q", "R", "S", "T", "U", "V", "W", "X", "Y", "Z",
       "_",
       "a", "b", "c", "d", "e", "f", "g", "h", "i", "j", "k", "l", "m",
       "n", "o", "p", "q", "r", "s", "t", "u", "v", "w", "x", "y", "z" >>

Ord(c) == CHOOSE i \in DOMAIN Chars : Chars[i] = c

Digits == <<"0", "1", "2", "3", "4", "5", "6", "7", "8", "9">>

IsDigit(c) == \E i \in DOMAIN Digits : Digits[i] = c

DigitVal(c) == (CHOOSE i \in DOMAIN Digits : Digits[i] = c) - 1

UpperCase ==
    {"A", "B", "C", "D", "E", "F", "G", "H", "I", "J", "K", "L", "M",
     "N", "O", "P", "Q", "R", "S", "T", "U", "V", "W", "X", "Y", "Z"}

IsUpper(c) == c \in UpperCase

\* str.lower() on one character
LowerChar(c) == IF IsUpper(c) THEN Chars[Ord(c) + (Ord("a") - Ord("A"))] ELSE c

\* str.lower()
RECURSIVE Lower(_)
Lower(s) == IF s = <<>> THEN <<>> ELSE <<LowerChar(Head(s))>> \o Lower(Tail(s))

\* t in s (substring containment of Python's `in` on str)
Contains(s, t) ==
    \E i \in 0..(Len(s) - Len(t)) : SubSeq(s, i + 1, i + Len(t)) = t

\* s < t on str (code-point lexicographic), the order of sorted() on the
\* paths of one directory
StrLess(s, t) ==
    \E k \in 0..Len(s) :
        /\ k <= Len(t)
        /\ \A i \in 1..k : s[i] = t[i]
        /\ \/ (k = Len(s) /\ k < Len(t))
           \/ (k < Len(s) /\ k < Len(t) /\ Ord(s[k + 1]) < Ord(t[k + 1]))

RECURSIVE Concat(_)
Concat(ss) == IF ss = <<>> THEN <<>> ELSE Head(ss) \o Concat(Tail(ss))

\* all sequences over S of length at most n
SeqsUpTo(S, n) == UNION {[1..k -> S] : k \in 0..n}

(***************************************************************************)
(* String literals of the source.                                          *)
(***************************************************************************)
s_safe_ == <<"s", "a", "f", "e", "_">>
s_unsafe == <<"u", "n", "s", "a", "f", "e">>
s_UNSAFE_LOAD == <<"U", "N", "S", "A", "F", "E", "_", "L", "O", "A", "D">>
s_SAFE_LOAD == <<"S", "A", "F", "E", "_", "L", "O", "A", "D">>
s_extapi == <<"e", "x", "t", "a", "p", "i">>
s_eexapi == <<"e", "e", "x", "a", "p", "i">>
s_null_ptr == <<"n", "u", "l", "l", "_", "p", "t", "r">>
s_Found == <<"F", "o", "u", "n", "d">>
s_potential_vulnerabilities ==
    <<"p", "o", "t", "e", "n", "t", "i", "a", "l", " ",
      "v", "u", "l", "n", "e", "r", "a", "b", "i", "l", "i", "t", "i", "e", "s">>

(***************************************************************************)
(* TestResult (dataclass) and its derived properties.                      *)
(***************************************************************************)
TestResult(filename, expected, found, count, error) ==
    [filename |-> filename, expected_bug |-> expected, found_bug |-> found,
     vuln_count |-> count, error |-> error]

is_tp(r) == r.expected_bug /\ r.found_bug

is_tn(r) == ~r.expected_bug /\ ~r.found_bug

is_fp(r) == ~r.expected_bug /\ r.found_bug

is_fn(r) == r.expected_bug /\ ~r.found_bug

\* mutant: the error field does not take precedence
category_no_error(r) ==
    IF is_tp(r) THEN "TP" ELSE IF is_tn(r) THEN "TN"
    ELSE IF is_fp(r) THEN "FP" ELSE IF is_fn(r) THEN "FN" ELSE "UNKNOWN"

category(r) ==
    IF r.error # "" THEN "ERROR"
    ELSE IF is_tp(r) THEN "TP" ELSE IF is_tn(r) THEN "TN"
    ELSE IF is_fp(r) THEN "FP" ELSE IF is_fn(r) THEN "FN" ELSE "UNKNOWN"

(***************************************************************************)
(* NPDValidator.check_expected_behavior: the value returned and the line   *)
(* of the return statement that produced it.                               *)
(***************************************************************************)
\* mutant: the `unsafe` file-name rule is tested before the `safe_` rule
check_expected_behavior_unsafe_first(name, content) ==
    LET filename == Lower(name) IN
    IF Contains(filename, s_unsafe) THEN [ret |-> TRUE, line |-> 72]
    ELSE IF Contains(filename, s_safe_)
        THEN [ret |-> Contains(content, s_UNSAFE_LOAD), line |-> 68]
    ELSE IF Contains(content, s_UNSAFE_LOAD) THEN [ret |-> TRUE, line |-> 76]
    ELSE IF Contains(content, s_SAFE_LOAD) /\ ~Contains(content, s_UNSAFE_LOAD)
        THEN [ret |-> FALSE, line |-> 78]
    ELSE IF (Contains(filename, s_extapi) \/ Contains(filename, s_eexapi))
            /\ Contains(filename, s_null_ptr)
        THEN [ret |-> TRUE, line |-> 82]
    ELSE [ret |-> TRUE, line |-> 84]

check_expected_behavior(name, content) ==
    LET filename == Lower(name) IN
    IF Contains(filename, s_safe_)
        THEN [ret |-> Contains(content, s_UNSAFE_LOAD), line |-> 68]
    ELSE IF Contains(filename, s_unsafe) THEN [ret |-> TRUE, line |-> 72]
    ELSE IF Contains(content, s_UNSAFE_LOAD) THEN [ret |-> TRUE, line |-> 76]
    ELSE IF Contains(content, s_SAFE_LOAD) /\ ~Contains(content, s_UNSAFE_LOAD)
        THEN [ret |-> FALSE, line |-> 78]
    ELSE IF (Contains(filename, s_extapi) \/ Contains(filename, s_eexapi))
            /\ Contains(filename, s_null_ptr)
        THEN [ret |-> TRUE, line |-> 82]
    ELSE [ret |-> TRUE, line |-> 84]

(***************************************************************************)
(* Text helpers of run_gvfa_analysis: str.split('\n'), str.split(), int(). *)
(***************************************************************************)
IsSpace(c) == c \in {" ", "\t", "\n"}

\* the first index >= i of s that holds a newline, or 0
RECURSIVE FindNewline(_, _)
FindNewline(s, i) ==
    IF i > Len(s) THEN 0
    ELSE IF s[i] = "\n" THEN i ELSE FindNewline(s, i + 1)

\* s.split('\n')
RECURSIVE SplitLines(_)
SplitLines(s) ==
    LET i == FindNewline(s, 1) IN
    IF i = 0 THEN <<s>>
    ELSE <<SubSeq(s, 1, i - 1)>> \o SplitLines(SubSeq(s, i + 1, Len(s)))

\* the end of the run of non-whitespace characters of s that starts at i
RECURSIVE TokenEnd(_, _)
TokenEnd(s, i) ==
    IF i = Len(s) \/ IsSpace(s[i + 1]) THEN i ELSE TokenEnd(s, i + 1)

\* s.split(): the maximal runs of non-whitespace characters
RECURSIVE Tokens(_)
Tokens(s) ==
    IF s = <<>> THEN <<>>
    ELSE IF IsSpace(s[1]) THEN Tokens(Tail(s))
    ELSE LET n == TokenEnd(s, 1)
         IN <<SubSeq(s, 1, n)>> \o Tokens(SubSeq(s, n + 1, Len(s)))

\* the unsigned part of an int() literal: digits, single underscores allowed
\* between digits
IsDigitString(t) ==
    /\ t # <<>>
    /\ \A i \in DOMAIN t : IsDigit(t[i]) \/ t[i] = "_"
    /\ IsDigit(t[1]) /\ IsDigit(t[Len(t)])
    /\ \A i \in 1..(Len(t) - 1) : ~(t[i] = "_" /\ t[i + 1] = "_")

RECURSIVE DigitsValue(_, _)
DigitsValue(t, acc) ==
    IF t = <<>> THEN acc
    ELSE IF t[1] = "_" THEN DigitsValue(Tail(t), acc)
    ELSE DigitsValue(Tail(t), 10 * acc + DigitVal(t[1]))

HasSign(t) == t # <<>> /\ t[1] \in {"+", "-"}

\* int(t) does not raise ValueError
IsInt(t) == IsDigitString(IF HasSign(t) THEN Tail(t) ELSE t)

\* int(t)
IntValue(t) ==
    IF HasSign(t)
    THEN (IF t[1] = "-" THEN 0 - DigitsValue(Tail(t), 0)
                        ELSE DigitsValue(Tail(t), 0))
    ELSE DigitsValue(t, 0)

\* a line the loop of run_gvfa_analysis tries to parse
Matches(line) ==
    Contains(line, s_Found) /\ Contains(line, s_potential_vulnerabilities)

\* int(line.split()[1]) succeeds (neither IndexError nor ValueError)
Parses(line) == Len(Tokens(line)) >= 2 /\ IsInt(Tokens(line)[2])

\* the for loop of run_gvfa_analysis, from running count vuln_count
RECURSIVE ScanLines(_, _)
ScanLines(lines, vuln_count) ==
    IF lines = <<>> THEN vuln_count
    ELSE LET line == Head(lines) IN
         IF Matches(line) /\ Parses(line)
         THEN ScanLines(Tail(lines), IntValue(Tokens(line)[2]))
         ELSE ScanLines(Tail(lines), vuln_count)

(***************************************************************************)
(* The two external stages.  A process outcome is                          *)
(*   [kind, returncode, stdout, stderr], kind one of                       *)
(*   "exit" (subprocess.run returned), "timeout" (TimeoutExpired),         *)
(*   "exception" (any other Exception of the invocation).                  *)
(***************************************************************************)
\* Path.stem of a file name
Stem(name) ==
    IF \E i \in 2..Len(name) : name[i] = "."
    THEN LET i == CHOOSE j \in 2..Len(name) :
                      name[j] = "." /\ \A k \in (j + 1)..Len(name) : name[k] # "."
         IN SubSeq(name, 1, i - 1)
    ELSE name

\* NPDValidator.compile_to_bitcode
compile_to_bitcode(name, proc) ==
    LET bc_file == Stem(name) \o <<".", "b", "c">> IN
    IF proc.kind = "exit"
    THEN IF proc.returncode # 0
         THEN [bc_file |-> bc_file, error |-> "Compilation failed: <stderr>"]
         ELSE [bc_file |-> bc_file, error |-> ""]
    ELSE IF proc.kind = "timeout"
    THEN [bc_file |-> bc_file, error |-> "Compilation timeout"]
    ELSE [bc_file |-> bc_file, error |-> "Compilation error: <e>"]

\* mutant: every non-zero exit is an analysis error
run_gvfa_analysis_strict(proc) ==
    IF proc.kind = "exit"
    THEN LET output == proc.stdout \o proc.stderr
             vuln_count == ScanLines(SplitLines(output), 0)
         IN IF proc.returncode # 0
            THEN [vuln_count |-> 0, error |-> "Analysis failed: <stderr[:200]>"]
            ELSE [vuln_count |-> vuln_count, error |-> ""]
    ELSE IF proc.kind = "timeout"
    THEN [vuln_count |-> 0, error |-> "Analysis timeout"]
    ELSE [vuln_count |-> 0, error |-> "Analysis error: <e>"]

\* NPDValidator.run_gvfa_analysis
run_gvfa_analysis(proc) ==
    IF proc.kind = "exit"
    THEN LET output == proc.stdout \o proc.stderr
             vuln_count == ScanLines(SplitLines(output), 0)
         IN IF proc.returncode # 0 /\ vuln_count = 0
            THEN [vuln_count |-> 0, error |-> "Analysis failed: <stderr[:200]>"]
            ELSE [vuln_count |-> vuln_count, error |-> ""]
    ELSE IF proc.kind = "timeout"
    THEN [vuln_count |-> 0, error |-> "Analysis timeout"]
    ELSE [vuln_count |-> 0, error |-> "Analysis error: <e>"]

(***************************************************************************)
(* validate_single_file / validate_all                                     *)
(***************************************************************************)
\* mutant: the directory listing is used in descending order
sorted_descending(S) ==
    CHOOSE q \in [1..Cardinality(S) -> S] :
        /\ \A i, j \in DOMAIN q : i # j => q[i] # q[j]
        /\ \A i \in 1..(Len(q) - 1) : StrLess(q[i + 1].name, q[i].name)

\* sorted(self.benchmark_dir.glob("*.c")): file names of a directory are distinct
sorted(S) ==
    CHOOSE q \in [1..Cardinality(S) -> S] :
        /\ \A i, j \in DOMAIN q : i # j => q[i] # q[j]
        /\ \A i \in 1..(Len(q) - 1) : StrLess(q[i].name, q[i + 1].name)

\* mutant: a stage error does not end validate_single_file
stage_failed_never(error) == FALSE

\* `if compile_error:` / `if analysis_error:`
stage_failed(error) == error # ""

\* the locals of validate_single_file that hold the stages' results
NoRun ==
    [bc_file |-> <<>>, compile_error |-> "", kind |-> "none", returncode |-> 0,
     stdout |-> <<>>, stderr |-> <<>>, vuln_count |-> 0, analysis_error |-> ""]

(***************************************************************************)
(* print_summary: exact rationals <<numerator, denominator>> stand for the *)
(* floats; every evaluated division is logged with its denominator.        *)
(***************************************************************************)
has_error(r) == r.error # ""

RMul(a, b) == <<a[1] * b[1], a[2] * b[2]>>

RAdd(a, b) == <<a[1] * b[2] + b[1] * a[2], a[2] * b[2]>>

RDiv(a, b) == <<a[1] * b[2], a[2] * b[1]>>

\* x > 0 for a rational with a non-negative numerator
RPos(x) == x[1] > 0

Names(rs) == [i \in DOMAIN rs |-> rs[i].filename]

\* mutant: the metrics guard tests only the precision denominator
metrics_half_guard(tp, fp, fn) ==
    IF tp + fp > 0
    THEN LET precision == <<tp, tp + fp>>
             recall == <<tp, tp + fn>>
             pr == RAdd(precision, recall)
             f1 == IF RPos(pr)
                   THEN RDiv(RMul(<<2, 1>>, RMul(precision, recall)), pr)
                   ELSE <<0, 1>>
         IN [reported |-> {[precision |-> precision, recall |-> recall, f1 |-> f1]},
             divs |-> <<[expr |-> "precision", den |-> tp + fp],
                        [expr |-> "recall", den |-> tp + fn]>>
                      \o (IF RPos(pr) THEN <<[expr |-> "f1", den |-> pr[1]]>>
                                      ELSE <<>>)]
    ELSE [reported |-> {}, divs |-> <<>>]

\* the "# Metrics" block of print_summary.  The denominator logged for F1 is
\* the numerator of precision + recall, which is zero iff the sum is zero.
metrics(tp, fp, fn) ==
    IF tp + fp > 0 /\ tp + fn > 0
    THEN LET precision == <<tp, tp + fp>>
             recall == <<tp, tp + fn>>
             pr == RAdd(precision, recall)
             f1 == IF RPos(pr)
                   THEN RDiv(RMul(<<2, 1>>, RMul(precision, recall)), pr)
                   ELSE <<0, 1>>
         IN [reported |-> {[precision |-> precision, recall |-> recall, f1 |-> f1]},
             divs |-> <<[expr |-> "precision", den |-> tp + fp],
                        [expr |-> "recall", den |-> tp + fn]>>
                      \o (IF RPos(pr) THEN <<[expr |-> "f1", den |-> pr[1]]>>
                                      ELSE <<>>)]
    ELSE [reported |-> {}, divs |-> <<>>]

\* NPDValidator.print_summary
print_summary(rs) ==
    LET tp == SelectSeq(rs, is_tp)
        tn == SelectSeq(rs, is_tn)
        fp == SelectSeq(rs, is_fp)
        fn == SelectSeq(rs, is_fn)
        errors == SelectSeq(rs, has_error)
        total == Len(rs)
        correct == Len(tp) + Len(tn)
        m == metrics(Len(tp), Len(fp), Len(fn))
    IN [summary |->
            [total |-> total, correct |-> correct,
             percent |-> <<100 * correct, total>>, errors |-> Len(errors),
             tp |-> Len(tp), tn |-> Len(tn), fp |-> Len(fp), fn |-> Len(fn),
             metrics |-> m.reported,
             listed |-> [fp |-> Names(fp), fn |-> Names(fn),
                         errors |-> Names(errors)]],
        divs |-> <<[expr |-> "correct/total", den |-> total]>> \o m.divs]

NoSummary == [total |-> -1]

(***************************************************************************)
(* save_results_json                                                       *)
(***************************************************************************)
save_results_json(rs) ==
    [total |-> Len(rs),
     true_positives |-> Len(SelectSeq(rs, is_tp)),
     true_negatives |-> Len(SelectSeq(rs, is_tn)),
     false_positives |-> Len(SelectSeq(rs, is_fp)),
     false_negatives |-> Len(SelectSeq(rs, is_fn)),
     errors |-> Len(SelectSeq(rs, has_error)),
     results |-> [i \in DOMAIN rs |->
                     [filename |-> rs[i].filename,
                      expected_bug |-> rs[i].expected_bug,
                      found_bug |-> rs[i].found_bug,
                      vuln_count |-> rs[i].vuln_count,
                      category |-> category(rs[i]),
                      error |-> rs[i].error]]]

NoJson == [total |-> -1]

(***************************************************************************)
(* main                                                                    *)
(***************************************************************************)
\* mutant: error records do not affect the exit code
main_return_ignoring_errors(rs) ==
    IF \E i \in DOMAIN rs : is_fp(rs[i]) \/ is_fn(rs[i]) THEN 1 ELSE 0

\* return 1 if any(r.is_fp or r.is_fn or r.error for r in results) else 0
main_return(rs) ==
    IF \E i \in DOMAIN rs : is_fp(rs[i]) \/ is_fn(rs[i]) \/ rs[i].error # ""
    THEN 1 ELSE 0

(***************************************************************************)
(* Inputs: the benchmark directory and the outcomes of the external        *)
(* processes.                                                              *)
(***************************************************************************)
f_unsafe_bar_c == <<"u", "n", "s", "a", "f", "e", "_", "b", "a", "r", ".", "c">>
f_safe_foo_c == <<"s", "a", "f", "e", "_", "f", "o", "o", ".", "c">>
f_plain_c == <<"p", "l", "a", "i", "n", ".", "c">>
f_Zed_c == <<"Z", "e", "d", ".", "c">>

\* the programs a benchmark directory is drawn from
CorpusFiles ==
    { [name |-> f_safe_foo_c, text |-> s_UNSAFE_LOAD],
      [name |-> f_plain_c, text |-> s_SAFE_LOAD],
      [name |-> f_Zed_c, text |-> <<>>] }

Directories == {S \in SUBSET CorpusFiles : Cardinality(S) <= MaxFiles}

\* outcomes of subprocess.run(clang ...)
CompileProcs ==
    { [kind |-> "exit", returncode |-> 0], [kind |-> "exit", returncode |-> 1],
      [kind |-> "timeout", returncode |-> 0],
      [kind |-> "exception", returncode |-> 0] }

l_Found_2 == s_Found \o <<" ", "2", " ">> \o s_potential_vulnerabilities
l_Found_0 == s_Found \o <<" ", "0", " ">> \o s_potential_vulnerabilities
l_Found_m1 == s_Found \o <<" ", "-", "1", " ">> \o s_potential_vulnerabilities
l_Found_no == s_Found \o <<" ", "n", "o", " ">> \o s_potential_vulnerabilities
l_done == <<"d", "o", "n", "e">>
l_Found_pv == s_Found \o <<" ">> \o s_potential_vulnerabilities

AnalyzerLines == {l_Found_2, l_Found_0, l_Found_m1, l_Found_no, l_done}

\* stdout: at most MaxLines newline-terminated lines
StdoutTexts ==
    {Concat([i \in DOMAIN q |-> q[i] \o <<"\n">>]) :
        q \in SeqsUpTo(AnalyzerLines, MaxLines)}

\* stderr: empty, or one diagnostic line that matches but carries no count
StderrTexts == {<<>>, l_Found_pv \o <<"\n">>}

\* outcomes of subprocess.run(lotus-gvfa ...)
AnalyzerProcs ==
    {[kind |-> "exit", returncode |-> rc, stdout |-> out, stderr |-> err] :
        rc \in {0, 1}, out \in StdoutTexts, err \in StderrTexts}
    \cup {[kind |-> k, returncode |-> 0, stdout |-> <<>>, stderr |-> <<>>] :
            k \in {"timeout", "exception"}}

(***************************************************************************)
(* The harness run: main -> validate_all -> validate_single_file* ->       *)
(* print_summary -> save_results_json -> return.                           *)
(***************************************************************************)
Init ==
    /\ pc = "main"
    /\ dir_exists \in BOOLEAN
    /\ gvfa_exists \in BOOLEAN
    /\ files \in Directories
    /\ (~dir_exists => files = {})
    /\ c_files = <<>>
    /\ idx = 0
    /\ expected_bug = FALSE
    /\ ret_line = 0
    /\ run = NoRun
    /\ results = <<>>
    /\ calls = <<>>
    /\ divs = <<>>
    /\ summary = NoSummary
    /\ json = NoJson
    /\ console = <<>>
    /\ exit_code = -1

Call(i, stage, proc, error) ==
    [file |-> i, stage |-> stage, kind |-> proc.kind,
     returncode |-> proc.returncode, error |-> error]

\* main, lines 217-245: the two path checks and the validator's construction
Main_CheckPaths ==
    /\ pc = "main"
    /\ IF ~dir_exists
       THEN /\ console' = Append(console, "Error: Benchmark directory not found")
            /\ exit_code' = 1
            /\ pc' = "exit"
       ELSE IF ~gvfa_exists
       THEN /\ console' = Append(console, "Error: lotus-gvfa not found")
            /\ exit_code' = 1
            /\ pc' = "exit"
       ELSE /\ pc' = "validate_all"
            /\ UNCHANGED <<console, exit_code>>
    /\ UNCHANGED <<dir_exists, gvfa_exists, files, c_files, idx, expected_bug,
                   ret_line, run, results, calls, divs, summary, json>>

\* validate_all, lines 150-155
ValidateAll_Glob ==
    /\ pc = "validate_all"
    /\ c_files' = sorted(files)
    /\ IF c_files' = <<>>
       THEN /\ console' = Append(console, "Error: No .c files found")
            /\ pc' = "main_results"
            /\ idx' = idx
       ELSE /\ console' = console
            /\ pc' = "classify"
            /\ idx' = 1
    /\ UNCHANGED <<dir_exists, gvfa_exists, files, expected_bug, ret_line, run,
                   results, calls, divs, summary, json, exit_code>>

\* validate_single_file, lines 130-131
ValidateFile_Classify ==
    /\ pc = "classify"
    /\ LET e == check_expected_behavior(c_files[idx].name, c_files[idx].text) IN
        /\ expected_bug' = e.ret
        /\ ret_line' = e.line
        /\ calls' = Append(calls, Call(idx, "classify",
                                      [kind |-> "call", returncode |-> 0], ""))
    /\ run' = NoRun
    /\ pc' = "compile"
    /\ UNCHANGED <<dir_exists, gvfa_exists, files, c_files, idx, results, divs,
                   summary, json, console, exit_code>>

\* validate_single_file, line 133
ValidateFile_Compile ==
    /\ pc = "compile"
    /\ \E proc \in CompileProcs :
        LET r == compile_to_bitcode(c_files[idx].name, proc) IN
        /\ run' = [run EXCEPT !.bc_file = r.bc_file, !.compile_error = r.error]
        /\ calls' = Append(calls, Call(idx, "compile", proc, r.error))
    /\ pc' = "compiled"
    /\ UNCHANGED <<dir_exists, gvfa_exists, files, c_files, idx, expected_bug,
                   ret_line, results, divs, summary, json, console, exit_code>>

\* the list comprehension of validate_all moves on to the next file
NextFile ==
    IF idx < Len(c_files)
    THEN idx' = idx + 1 /\ pc' = "classify"
    ELSE idx' = idx /\ pc' = "main_results"

\* validate_single_file, lines 134-136
ValidateFile_AfterCompile ==
    /\ pc = "compiled"
    /\ IF stage_failed(run.compile_error)
       THEN /\ results' = Append(results,
                    TestResult(c_files[idx].name, expected_bug, FALSE, 0,
                               run.compile_error))
            /\ run' = NoRun
            /\ NextFile
       ELSE /\ pc' = "analyze"
            /\ UNCHANGED <<results, run, idx>>
    /\ UNCHANGED <<dir_exists, gvfa_exists, files, c_files, expected_bug,
                   ret_line, calls, divs, summary, json, console, exit_code>>

\* validate_single_file, line 138
ValidateFile_Analyze ==
    /\ pc = "analyze"
    /\ \E proc \in AnalyzerProcs :
        LET r == run_gvfa_analysis(proc) IN
        /\ run' = [run EXCEPT !.kind = proc.kind,
                              !.returncode = proc.returncode,
                              !.stdout = proc.stdout, !.stderr = proc.stderr,
                              !.vuln_count = r.vuln_count,
                              !.analysis_error = r.error]
        /\ calls' = Append(calls, Call(idx, "analyze", proc, r.error))
    /\ pc' = "analyzed"
    /\ UNCHANGED <<dir_exists, gvfa_exists, files, c_files, idx, expected_bug,
                   ret_line, results, divs, summary, json, console, exit_code>>

\* validate_single_file, lines 139-146
ValidateFile_Record ==
    /\ pc = "analyzed"
    /\ IF stage_failed(run.analysis_error)
       THEN results' = Append(results,
                TestResult(c_files[idx].name, expected_bug, FALSE, 0,
                           run.analysis_error))
       ELSE LET found_bug == run.vuln_count > 0 IN
            results' = Append(results,
                TestResult(c_files[idx].name, expected_bug, found_bug,
                           run.vuln_count, ""))
    /\ run' = NoRun
    /\ NextFile
    /\ UNCHANGED <<dir_exists, gvfa_exists, files, c_files, expected_bug,
                   ret_line, calls, divs, summary, json, console, exit_code>>

\* main, lines 247-250
Main_Results ==
    /\ pc = "main_results"
    /\ IF results = <<>>
       THEN /\ console' = Append(console, "No results to report.")
            /\ exit_code' = 1
            /\ pc' = "exit"
       ELSE /\ pc' = "print_summary"
            /\ UNCHANGED <<console, exit_code>>
    /\ UNCHANGED <<dir_exists, gvfa_exists, files, c_files, idx, expected_bug,
                   ret_line, run, results, calls, divs, summary, json>>

\* main, line 252
Main_PrintSummary ==
    /\ pc = "print_summary"
    /\ LET p == print_summary(results) IN
        /\ summary' = p.summary
        /\ divs' = divs \o p.divs
    /\ pc' = "save_results_json"
    /\ UNCHANGED <<dir_exists, gvfa_exists, files, c_files, idx, expected_bug,
                   ret_line, run, results, calls, json, console, exit_code>>

\* main, line 253
Main_SaveResults ==
    /\ pc = "save_results_json"
    /\ json' = save_results_json(results)
    /\ pc' = "return"
    /\ UNCHANGED <<dir_exists, gvfa_exists, files, c_files, idx, expected_bug,
                   ret_line, run, results, calls, divs, summary, console,
                   exit_code>>

\* main, line 255
Main_Return ==
    /\ pc = "return"
    /\ exit_code' = main_return(results)
    /\ pc' = "exit"
    /\ UNCHANGED <<dir_exists, gvfa_exists, files, c_files, idx, expected_bug,
                   ret_line, run, results, calls, divs, summary, json, console>>

Next ==
    \/ Main_CheckPaths
    \/ ValidateAll_Glob
    \/ ValidateFile_Classify
    \/ ValidateFile_Compile
    \/ ValidateFile_AfterCompile
    \/ ValidateFile_Analyze
    \/ ValidateFile_Record
    \/ Main_Results
    \/ Main_PrintSummary
    \/ Main_SaveResults
    \/ Main_Return

Spec == Init /\ [][Next]_vars

(***************************************************************************)
(* The pure functions on their own: check_expected_behavior on generated   *)
(* file names and contents, and TestResult.category on any TestResult.     *)
(***************************************************************************)
NameFrags ==
    { <<"u", "n">>, <<"s", "a", "f", "e">>, s_safe_, <<"S", "A", "F", "E", "_">>,
      s_extapi, s_eexapi, s_null_ptr }

TextFrags == { <<"U", "N">>, s_SAFE_LOAD, <<"x">> }

\* generated names, and the three names the documentation uses as examples
UnitNames ==
    {Concat(q) \o <<".", "c">> : q \in SeqsUpTo(NameFrags, MaxFrags)}
    \cup {f_unsafe_bar_c, f_safe_foo_c, f_plain_c}

UnitTexts == {Concat(q) : q \in SeqsUpTo(TextFrags, MaxFrags)}

UnitErrors == {"", "Compilation timeout", "Analysis timeout"}

UnitInit ==
    /\ pc = "unit"
    /\ dir_exists = TRUE
    /\ gvfa_exists = TRUE
    /\ \E n \in UnitNames, t \in UnitTexts :
        /\ files = {[name |-> n, text |-> t]}
        /\ c_files = <<[name |-> n, text |-> t]>>
    /\ idx = 1
    /\ expected_bug = FALSE
    /\ ret_line = 0
    /\ run = NoRun
    /\ results = <<>>
    /\ calls = <<>>
    /\ divs = <<>>
    /\ summary = NoSummary
    /\ json = NoJson
    /\ console = <<>>
    /\ exit_code = -1

\* check_expected_behavior(c_file)
Unit_CheckExpected ==
    /\ pc = "unit"
    /\ LET e == check_expected_behavior(c_files[idx].name, c_files[idx].text) IN
        /\ expected_bug' = e.ret
        /\ ret_line' = e.line
    /\ pc' = "unit_classified"
    /\ UNCHANGED <<dir_exists, gvfa_exists, files, c_files, idx, run, results,
                   calls, divs, summary, json, console, exit_code>>

\* TestResult(name, expected_bug, found_bug, vuln_count, error) for any
\* found_bug and error
Unit_TestResult ==
    /\ pc = "unit_classified"
    /\ \E found \in BOOLEAN, error \in UnitErrors :
        results' = <<TestResult(c_files[idx].name, expected_bug, found,
                                IF found THEN 1 ELSE 0, error)>>
    /\ pc' = "unit_done"
    /\ UNCHANGED <<dir_exists, gvfa_exists, files, c_files, idx, expected_bug,
                   ret_line, run, calls, divs, summary, json, console,
                   exit_code>>

UnitNext == Unit_CheckExpected \/ Unit_TestResult

UnitSpec == UnitInit /\ [][UnitNext]_vars

(***************************************************************************)
(* Properties.                                                             *)
(***************************************************************************)
Categories == {"TP", "TN", "FP", "FN", "ERROR"}

\* C1: every TestResult has exactly one category among TP, TN, FP, FN, ERROR
\* (never UNKNOWN); the category is ERROR iff error is non-empty; with an
\* empty error it is TP iff expected_bug and found_bug, TN iff neither, FP iff
\* found_bug only, FN iff expected_bug only.
C1_CategoryPartition ==
    \A i \in DOMAIN results :
        LET r == results[i]
            c == category(r)
        IN /\ c \in Categories
           /\ (c = "ERROR") <=> (r.error # "")
           /\ r.error = "" =>
                /\ (c = "TP") <=> (r.expected_bug /\ r.found_bug)
                /\ (c = "TN") <=> (~r.expected_bug /\ ~r.found_bug)
                /\ (c = "FP") <=> (~r.expected_bug /\ r.found_bug)
                /\ (c = "FN") <=> (r.expected_bug /\ ~r.found_bug)

\* a TestResult that would be a TP carries an error, and one without error
C1_Witness ==
    /\ pc = "unit_done"
    /\ results[1].expected_bug /\ results[1].found_bug
    /\ results[1].error # ""

Classified == pc = "unit_classified"

\* C2: unsafe_bar.c is expected buggy for every source text, through the
\* `unsafe` file-name rule (the return statement of line 72).
C2_UnsafeBarExpectedBuggy ==
    (Classified /\ c_files[1].name = f_unsafe_bar_c)
        => (expected_bug = TRUE /\ ret_line = 72)

\* the six rules in priority order: the predicate of rule i on a lower-cased
\* file name n and a content text, its verdict, and its return line
RuleMatches(i, n, text) ==
    CASE i = 1 -> Contains(n, s_safe_)
      [] i = 2 -> Contains(n, s_unsafe)
      [] i = 3 -> Contains(text, s_UNSAFE_LOAD)
      [] i = 4 -> Contains(text, s_SAFE_LOAD) /\ ~Contains(text, s_UNSAFE_LOAD)
      [] i = 5 -> (Contains(n, s_extapi) \/ Contains(n, s_eexapi))
                    /\ Contains(n, s_null_ptr)
      [] OTHER -> TRUE

RuleVerdict(i, text) ==
    CASE i = 1 -> Contains(text, s_UNSAFE_LOAD)
      [] i = 4 -> FALSE
      [] OTHER -> TRUE

RuleLines == <<68, 72, 76, 78, 82, 84>>

\* the first rule from i on that matches
RECURSIVE FirstMatch(_, _, _)
FirstMatch(i, n, text) ==
    IF RuleMatches(i, n, text) THEN i ELSE FirstMatch(i + 1, n, text)

CountCategory(rs, c) == Cardinality({i \in DOMAIN rs : category(rs[i]) = c})

\* C4: in the aggregate written by save_results_json and the breakdown of
\* print_summary every count is the number of records of that category, and
\* the correct count holds no error record.
C4_CountsByCategory ==
    /\ json.total >= 0 =>
        /\ json.true_positives = CountCategory(results, "TP")
        /\ json.true_negatives = CountCategory(results, "TN")
        /\ json.false_positives = CountCategory(results, "FP")
        /\ json.false_negatives = CountCategory(results, "FN")
        /\ json.errors = CountCategory(results, "ERROR")
    /\ summary.total >= 0 =>
        /\ summary.tp = CountCategory(results, "TP")
        /\ summary.tn = CountCategory(results, "TN")
        /\ summary.fp = CountCategory(results, "FP")
        /\ summary.fn = CountCategory(results, "FN")
        /\ summary.correct
             = CountCategory(results, "TP") + CountCategory(results, "TN")

\* C5: main returns 0 iff the corpus directory and the analyzer exist, the
\* corpus is not empty and every record is TP or TN; otherwise it returns 1.
C5_ExitCode ==
    pc = "exit" =>
        /\ exit_code \in {0, 1}
        /\ (exit_code = 0) <=>
            /\ dir_exists
            /\ gvfa_exists
            /\ files # {}
            /\ \A i \in DOMAIN results : category(results[i]) \in {"TP", "TN"}

\* a record that is not expected buggy, found nothing and carries an error
C5_Witness ==
    /\ pc = "exit"
    /\ exit_code = 1
    /\ Len(results) = 1
    /\ ~results[1].expected_bug /\ ~results[1].found_bug
    /\ results[1].error # ""

InValidation == pc \in {"classify", "compile", "compiled", "analyze", "analyzed"}

AfterValidation ==
    pc \in {"main_results", "print_summary", "save_results_json", "return"}
    \/ (pc = "exit" /\ dir_exists /\ gvfa_exists)

StageFault(call) ==
    \/ call.kind \in {"timeout", "exception"}
    \/ (call.stage = "compile" /\ call.returncode # 0)

\* C6: whatever the stages do, validate_all goes on to the end and yields one
\* record per program in sorted order; a stage failure for program i is in
\* record i's error field.
C6_OneRecordPerProgram ==
    /\ pc # "exit" => ENABLED Next
    /\ InValidation =>
        /\ idx \in DOMAIN c_files
        /\ Len(results) = idx - 1
    /\ (InValidation \/ AfterValidation) =>
        /\ Len(c_files) = Cardinality(files)
        /\ {c_files[i] : i \in DOMAIN c_files} = files
        /\ \A i, j \in DOMAIN c_files :
            i < j => StrLess(c_files[i].name, c_files[j].name)
        /\ \A i \in DOMAIN results : results[i].filename = c_files[i].name
    /\ AfterValidation => Len(results) = Cardinality(files)
    /\ \A k \in DOMAIN calls :
        (StageFault(calls[k]) /\ calls[k].file \in DOMAIN results)
            => results[calls[k].file].error # ""

\* the first program's compilation fails and the second one is still analysed
C6_Witness ==
    /\ pc = "exit"
    /\ Len(results) = 2
    /\ results[1].filename = f_Zed_c
    /\ results[1].error = "Compilation timeout"
    /\ results[2].error = ""
    /\ results[2].found_bug

NoZeroDivision == \A k \in DOMAIN divs : divs[k].den # 0

EmptyCorpusNoData ==
    /\ summary.total >= 0 => Len(results) >= 1
    /\ (pc = "exit" /\ dir_exists /\ gvfa_exists /\ files = {}) =>
        /\ summary = NoSummary
        /\ json = NoJson
        /\ divs = <<>>
        /\ console = <<"Error: No .c files found", "No results to report.">>

MetricsInRange ==
    summary.total >= 0 =>
        \A m \in summary.metrics :
            /\ m.precision = <<summary.tp, summary.tp + summary.fp>>
            /\ m.recall = <<summary.tp, summary.tp + summary.fn>>
            /\ 0 <= summary.tp /\ summary.tp <= summary.tp + summary.fp
            /\ summary.tp <= summary.tp + summary.fn

PrecisionRecallGuarded ==
    (summary.total >= 0
        /\ (summary.tp + summary.fp = 0 \/ summary.tp + summary.fn = 0))
            => summary.metrics = {}

\* precision and recall are computed and their sum is zero
SumIsZero ==
    /\ summary.tp + summary.fp > 0
    /\ summary.tp + summary.fn > 0
    /\ summary.tp = 0

CallsOf(i, stage) == {k \in DOMAIN calls : calls[k].file = i /\ calls[k].stage = stage}

ExpectedOf(i) == check_expected_behavior(c_files[i].name, c_files[i].text).ret

\* C8: per program the stages run in the order classification, compilation,
\* analysis; the analyzer is invoked only after a compilation without error;
\* a compilation or analysis error yields the record
\* (expected_bug, found_bug = false, vuln_count = 0, that error).
C8_StageOrder ==
    \A k \in DOMAIN calls :
        LET c == calls[k] IN
        /\ c.stage = "compile" =>
            /\ k > 1 /\ calls[k - 1].stage = "classify" /\ calls[k - 1].file = c.file
            /\ StageFault(c) <=> (c.error # "")
            /\ c.error # "" => CallsOf(c.file, "analyze") = {}
        /\ c.stage = "analyze" =>
            /\ k > 1 /\ calls[k - 1].stage = "compile" /\ calls[k - 1].file = c.file
            /\ calls[k - 1].error = ""
        /\ (c.stage \in {"compile", "analyze"} /\ c.error # ""
                /\ c.file \in DOMAIN results) =>
            results[c.file] = TestResult(c_files[c.file].name, ExpectedOf(c.file),
                                         FALSE, 0, c.error)

\* compilation of the first program failed and the run went on
C8_Witness ==
    /\ pc = "exit"
    /\ Len(results) = 2
    /\ \E k \in DOMAIN calls :
        calls[k].stage = "compile" /\ calls[k].file = 1 /\ calls[k].returncode = 1
    /\ \E k \in DOMAIN calls :
        calls[k].stage = "analyze" /\ calls[k].file = 2 /\ calls[k].error # ""

\* the lines of the analyzer's combined output, and those whose count parses
OutputLines == SplitLines(run.stdout \o run.stderr)

ParsedLines == {i \in DOMAIN OutputLines :
                    Matches(OutputLines[i]) /\ Parses(OutputLines[i])}

LastParsed ==
    LET i == CHOOSE j \in ParsedLines : \A k \in ParsedLines : k <= j
    IN IntValue(Tokens(OutputLines[i])[2])

NonZeroExit == pc = "analyzed" /\ run.kind = "exit" /\ run.returncode # 0

\* C9 (as claimed): on a non-zero exit run_gvfa_analysis returns an error iff
\* no count was parsed from any matching line; with a parsed count, whatever
\* its value, it returns that count and no error.
C9_NonZeroExitAsClaimed ==
    NonZeroExit =>
        /\ (run.analysis_error # "") <=> (ParsedLines = {})
        /\ ParsedLines # {} =>
            (run.vuln_count = LastParsed /\ run.analysis_error = "")

\* C9 (amended): on a non-zero exit run_gvfa_analysis returns an error iff
\* the running count is 0 after the scan (no count parsed, or the last
\* parsed count is 0); otherwise it returns the last parsed count, no error.
C9_NonZeroExit ==
    NonZeroExit =>
        LET count == IF ParsedLines = {} THEN 0 ELSE LastParsed IN
        /\ (run.analysis_error # "") <=> (count = 0)
        /\ run.vuln_count = count
        /\ count # 0 => run.analysis_error = ""

\* non-zero exit, count 2 on stdout, then a matching line without a count
C9_Witness ==
    /\ NonZeroExit
    /\ run.stdout = l_Found_2 \o <<"\n">>
    /\ run.stderr = l_Found_pv \o <<"\n">>
    /\ run.vuln_count = 2
    /\ run.analysis_error = ""

\* C10: every record has vuln_count >= 0 for any analyzer output: 0 when no
\* count is available, otherwise the last successfully parsed count.
C10_CountNonNegative ==
    /\ \A i \in DOMAIN results : results[i].vuln_count >= 0
    /\ pc = "analyzed" =>
        /\ run.vuln_count >= 0
        /\ (run.kind # "exit" \/ ParsedLines = {} \/ run.analysis_error # "")
                => run.vuln_count = 0
        /\ (run.kind = "exit" /\ ParsedLines # {} /\ run.analysis_error = "")
                => run.vuln_count = LastParsed

====
